---- MODULE Spec2Model ----
(***************************************************************************)
(* The yoga session controller (v3, manifest flow with the legacy pose     *)
(* flow as fallback): the session state machine, the one-second timer      *)
(* loop with its form-time ledger, the per-frame detection loop, the       *)
(* remote command handler and the asynchronous continuations of            *)
(* startSession, loadSegment and loadPose.                                 *)
(*                                                                         *)
(* Every handler of the controller is an operator from a record of the     *)
(* controller's fields to the record after the handler ran, so that a      *)
(* handler calling another one (the timer callback calling loadSegment     *)
(* calling completeSession) is the composition the code performs.  An      *)
(* action applies one handler to the current fields.                       *)
(*                                                                         *)
(* Time: Date.now() is read only by the timer callback and by              *)
(* loadSegment, so the clock advances by TickMs at each timer callback.    *)
(* The frame's pose match (calculatePoseMatch) is an input of the frame.   *)
(***************************************************************************)
EXTENDS Integers, Sequences, FiniteSets, TLC

(* ---- bounds of the model ---- *)
NumItems == 2        \* poses in sessionQueue = segments in the manifest
MaxHold == 2         \* hold duration of the items after the first, in seconds
MaxElapsed == 3      \* horizon of the session clock: seconds recorded
MaxChains == 2       \* detection-loop callback chains alive at once
SubTicks == 2        \* instants told apart within one timer period
MaxDrift == 3        \* range of the measured drift, in instants
MaxAlerts == 2       \* posture alerts counted
MaxPostureSteps == 24  \* horizon of the posture monitor's clock, in ShortGapMs
MaxCalibrationFrames == 33  \* calibration progress counted
MaxPerfNowMs == 14000  \* horizon of the animation clock
MaxAppMs == 12000  \* horizon of the monitor's clock
MaxWallMs == 4000  \* horizon of the wall clock of the broadcasts

(* ---- constants of the program ---- *)
establishingTimeoutMs == 10000
TickMs == 1000
PositioningLimit == 10
CountdownStart == 3
PerfectMin == 65
GoodMin == 45
OkayMin == 25
FormMatchPercent == 45
NoStartTime == 0 - 1

\* calibration
CalibrationGoal == 30
CalibrationPenalty == 2
\* the page's markup shows the start button disabled until calibration
\* enables it
StartBtnMarkupDisabled == TRUE

\* the variations of a pose, and the most frames counted for one of them
NumVariations == 3
MaxMatches == 3

\* the width of the camera frame, in thousandths
MaxCoordMilli == 1000

\* the adaptive baseline: the blend rate in percent, and the lateral
\* tolerance and the coordinates at calibration in thousandths
BlendRatePercent == 15
ToleranceLateralMilli == 80
CalibrationCentreMilli == 500

\* the longest tracked session, in seconds
MaxGradeSeconds == 30

\* the largest match score
MaxScore == 100

\* the monitor's zones and deadband, in thousandths
DeadbandMilli == 30
WarningFromMilli == 800
BadFromMilli == 1500
OscillationLowMilli == 1450
OscillationHighMilli == 1550
SustainedHighMilli == 2500

\* the monitor's no-person overlay (times in ms)
NO_PERSON_TIMEOUT_MS == 2000
LoopGapShortMs == 500
LoopGapLongMs == 1500

\* landmark smoothing (coordinates and the factor in hundredths)
smoothingFactor == 25
Hundred == 100

\* state broadcasts to the remote (times in ms)
BroadcastThrottleMs == 100
WallStartMs == 1000
WallStepMs == 50
NoSend == 0 - 1

\* skeleton interpolation (times in ms)
DefaultDurationMs == 3000
ShortDurationMs == 2000
AnimationFrameMs == 1000
HoldGapMs == 4000

\* the posture monitor (deviations in tenths, times in ms)
WarningFromTenths == 8
BadFromTenths == 15
DefaultCooldownMs == 30000
RelaxedCooldownMs == 60000
ShortGapMs == 3000
LongGapMs == 30000
PageLoadMs == 90000

Tiers == {"perfect", "good", "okay", "needsWork"}
GoodTiers == {"perfect", "good"}
Scores == {0, 30, 50, 70}
FrameInputs == {[kind |-> "none", score |-> 0], [kind |-> "noPerson", score |-> 0]}
               \cup {[kind |-> "person", score |-> sc] : sc \in Scores}
NewFrames == {f \in FrameInputs : f.kind # "none"}
Commands == {"start", "pause", "resume", "skip", "end", "toggle_voice",
             "toggle_ambient", "skip_establishing"}
validStates == {"active", "paused", "intro", "positioning", "instructions",
                "transition", "transitioning", "establishing"}
ZeroFormTime == [t \in Tiers |-> 0]

(* The session plan: duration_seconds[0] of the queued poses, which is     *)
(* floor(holdDurationMs / 1000) of the manifest's segments.  The first     *)
(* item is held one second, the others MaxHold seconds.                    *)
holdSeconds == [i \in 1..NumItems |-> IF i = 1 THEN 1 ELSE MaxHold]

VARIABLES
    state, segmentState, useManifest,
    currentPose, currentPoseIndex, currentSegmentIndex,
    poseTimeTotal, poseTimeRemaining, goodFormTime, sessionElapsed,
    matchScore, isFormGood, currentFormLevel,
    formTimeTracking, currentPoseFormTime,
    introPlayed, poseTimerStarted, audioComplete, formCalibrated,
    positioningTime, establishingElapsed, timerInterval,
    countdownInterval, count, introPending, segAudio, lpPc, detectChains,
    lastAction, itemsLoaded, loadedBy, formMatchedSinceLoad, scoredTier, waitTicks,
    \* the report's stored session: whether this session wrote it, and its ledger
    sessionSaved, savedFormTracking,
    \* the position within the timer period, and the pause drift measured
    tickPhase, measuring, drift,
    \* the posture monitor
    now, previousPostureZone, beepCooldownMs, lastBeepTime, smoothedDeviation,
    alertsFired,
    \* whether the alert of the current bad period was held back by the cooldown
    suppressedEntry,
    \* calibration: progress, the start button, and who started the countdown
    calibrationFrames, startBtnDisabled, startedBy, lastCalFrame,
    \* skeleton interpolation: the clock, the manager's lastUpdateTime, the
    \* session's interpolator (presence and fields), and when it was created
    \* and completed
    perfNow, lastUpdateTime, interpolator, interpElapsedMs, isComplete, durationMs,
    createdAt, completedAt,
    \* state broadcasts: the wall clock, the socket, the throttle's time stamp,
    \* the countdown's closure (count and next callback), and the times of
    \* the last two state_update messages and of the last two snapshots
    wallNow, wsOpen, lastStateBroadcast, bcCount, bcDue,
    lastSentAt, prevSentAt, lastSnapshotAt, prevSnapshotAt,
    \* the session's state as snapshots report it, and the status of the last
    \* snapshot sent
    bcStatus, lastSnapshotStatus,
    \* landmark smoothing: whether smoothedLandmarks is set, one of its
    \* coordinates, the raw coordinate of the last frame, and whether that
    \* frame was the first since the smoothed frame was discarded
    smoothedSet, smoothedX, lastRawX, firstAfterReset,
    \* configuration: the length of the session queue, whether the poses'
    \* references define angles, and whether init reported an error
    sessionQueueLength, referenceAngles, errorReported,
    \* the monitor's no-person overlay: the clock, the application state,
    \* the time of the last landmarks, the overlay, and since when detections
    \* are missing, the kind of the last frame, whether the overlay was raised
    appNow, currentState, lastLandmarkTime, noPersonOverlayVisible,
    missingSince, lastLoopFrame, overlayRaised,
    \* the monitor's zone on a fine scale: the smoothed deviation in
    \* thousandths, the zone of the last frame, the raw deviation of the last
    \* frame, and the zones left since the raw deviation began to oscillate
    fineDeviation, fineZone, lastRawDeviation, leftZones,
    \* the tier classifier on its own: the score of the last classified
    \* frame, the tier and the good-form flag it gave, and the tier before it
    classifiedScore, classifiedLevel, classifiedGood, earlierLevel,
    \* the grade on its own: the ledger of seconds per tier, and the letter,
    \* weighted sum and total of calculateFinalGrade once it has been called
    gradeTracking, gradeLetter, gradeWeighted, gradeTotal,
    \* variations of the current pose: the frames counted per variation, the
    \* matched variation (0 for null), and the variation that was first to
    \* reach the largest count
    variationMatchCounts, currentMatchedVariation, firstAtMax,
    \* the adaptive baseline: a coordinate of the ideal pose, and the value it
    \* had when it was calibrated
    calibratedX, originalX,
    \* the posture page's socket client: the page's state, the socket's
    \* readyState, the reconnect counter and timer, whether start_session was
    \* sent on the current socket, and whether an earlier socket had opened
    pageState, readyState, reconnectAttempts, reconnectTimer, startSessionSent, hadConnection,
    \* the device token: localStorage's entry, and each getDeviceToken call's
    \* position and returned token
    storedToken, tokenPc, tokenReturned

sessionVars == <<state, segmentState, useManifest,
          currentPose, currentPoseIndex, currentSegmentIndex,
          poseTimeTotal, poseTimeRemaining, goodFormTime, sessionElapsed,
          matchScore, isFormGood, currentFormLevel,
          formTimeTracking, currentPoseFormTime,
          introPlayed, poseTimerStarted, audioComplete, formCalibrated,
          positioningTime, establishingElapsed, timerInterval,
          countdownInterval, count, introPending, segAudio, lpPc, detectChains,
          lastAction, itemsLoaded, loadedBy, formMatchedSinceLoad, scoredTier, waitTicks,
          sessionSaved, savedFormTracking>>

clockVars == <<tickPhase, measuring, drift>>

postureVars == <<now, previousPostureZone, beepCooldownMs, lastBeepTime,
                 smoothedDeviation, alertsFired, suppressedEntry>>

calibVars == <<calibrationFrames, startBtnDisabled, startedBy, lastCalFrame>>

interpVars == <<perfNow, lastUpdateTime, interpolator, interpElapsedMs, isComplete,
                durationMs, createdAt, completedAt>>

broadcastVars == <<wallNow, wsOpen, lastStateBroadcast, bcCount, bcDue,
                   lastSentAt, prevSentAt, lastSnapshotAt, prevSnapshotAt,
                   bcStatus, lastSnapshotStatus>>

smoothVars == <<smoothedSet, smoothedX, lastRawX, firstAfterReset>>

configVars == <<sessionQueueLength, referenceAngles, errorReported>>

noPersonVars == <<appNow, currentState, lastLandmarkTime, noPersonOverlayVisible,
                  missingSince, lastLoopFrame, overlayRaised>>

fineVars == <<fineDeviation, fineZone, lastRawDeviation, leftZones>>

classifierVars == <<classifiedScore, classifiedLevel, classifiedGood, earlierLevel>>

gradeVars == <<gradeTracking, gradeLetter, gradeWeighted, gradeTotal>>

variationVars == <<variationMatchCounts, currentMatchedVariation, firstAtMax>>

driftVars == <<calibratedX, originalX>>

reconnectVars == <<pageState, readyState, reconnectAttempts, reconnectTimer, startSessionSent, hadConnection>>

tokenVars == <<storedToken, tokenPc, tokenReturned>>

vars == <<sessionVars, clockVars, postureVars, calibVars, interpVars, broadcastVars,
          smoothVars, configVars, noPersonVars, fineVars, classifierVars, gradeVars, variationVars, driftVars, reconnectVars, tokenVars>>

notSession == <<clockVars, postureVars, calibVars, interpVars, broadcastVars, smoothVars, configVars, noPersonVars, fineVars, classifierVars, gradeVars, variationVars, driftVars, reconnectVars, tokenVars>>
notClock == <<postureVars, calibVars, interpVars, broadcastVars, smoothVars, configVars, noPersonVars, fineVars, classifierVars, gradeVars, variationVars, driftVars, reconnectVars, tokenVars>>
notPosture == <<sessionVars, clockVars, calibVars, interpVars, broadcastVars, smoothVars, configVars, noPersonVars, fineVars, classifierVars, gradeVars, variationVars, driftVars, reconnectVars, tokenVars>>
notCalibration == <<clockVars, postureVars, interpVars, broadcastVars, smoothVars, configVars, noPersonVars, fineVars, classifierVars, gradeVars, variationVars, driftVars, reconnectVars, tokenVars>>
notInterpolation == <<sessionVars, clockVars, postureVars, calibVars, broadcastVars, smoothVars, configVars, noPersonVars, fineVars, classifierVars, gradeVars, variationVars, driftVars, reconnectVars, tokenVars>>
notBroadcast == <<sessionVars, clockVars, postureVars, calibVars, interpVars, smoothVars, configVars, noPersonVars, fineVars, classifierVars, gradeVars, variationVars, driftVars, reconnectVars, tokenVars>>
notNoPerson == <<sessionVars, clockVars, postureVars, calibVars, interpVars, broadcastVars,
                 smoothVars, configVars, fineVars, classifierVars, gradeVars, variationVars, driftVars, reconnectVars, tokenVars>>
notFine == <<sessionVars, clockVars, postureVars, calibVars, interpVars, broadcastVars,
             smoothVars, configVars, noPersonVars, classifierVars, gradeVars, variationVars, driftVars, reconnectVars, tokenVars>>
notClassifier == <<sessionVars, clockVars, postureVars, calibVars, interpVars, broadcastVars,
                   smoothVars, configVars, noPersonVars, fineVars, gradeVars, variationVars, driftVars, reconnectVars, tokenVars>>
notGrade == <<sessionVars, clockVars, postureVars, calibVars, interpVars, broadcastVars,
              smoothVars, configVars, noPersonVars, fineVars, classifierVars, variationVars, driftVars, reconnectVars, tokenVars>>
notSmooth == <<sessionVars, clockVars, postureVars, calibVars, interpVars, broadcastVars, configVars, noPersonVars, fineVars, classifierVars, gradeVars, variationVars, driftVars, reconnectVars, tokenVars>>
notVariation == <<sessionVars, clockVars, postureVars, calibVars, interpVars, broadcastVars, smoothVars, configVars, noPersonVars, fineVars, classifierVars, gradeVars, driftVars, reconnectVars, tokenVars>>
notDrift == <<sessionVars, clockVars, postureVars, calibVars, interpVars, broadcastVars, smoothVars, configVars, noPersonVars, fineVars, classifierVars, gradeVars, variationVars, reconnectVars, tokenVars>>
notReconnect == <<sessionVars, clockVars, postureVars, calibVars, interpVars, broadcastVars, smoothVars, configVars, noPersonVars, fineVars, classifierVars, gradeVars, variationVars, driftVars, tokenVars>>
notToken == <<sessionVars, clockVars, postureVars, calibVars, interpVars, broadcastVars, smoothVars, configVars, noPersonVars, fineVars, classifierVars, gradeVars, variationVars, driftVars, reconnectVars>>

(* The fields of the controller as one record.  The last six are history   *)
(* of the run, kept for the properties: the handler that ran last, the     *)
(* number of items loaded, the loader of the current item, whether a frame *)
(* of the current item matched the form threshold, the tier of the last    *)
(* frame scored for the current item, and the ticks spent waiting for form *)
(* on the current item.                                                    *)
Cur == [state |-> state, segmentState |-> segmentState,
        currentPose |-> currentPose, currentPoseIndex |-> currentPoseIndex,
        currentSegmentIndex |-> currentSegmentIndex,
        poseTimeTotal |-> poseTimeTotal, poseTimeRemaining |-> poseTimeRemaining,
        goodFormTime |-> goodFormTime, sessionElapsed |-> sessionElapsed,
        matchScore |-> matchScore, isFormGood |-> isFormGood,
        currentFormLevel |-> currentFormLevel,
        formTimeTracking |-> formTimeTracking,
        currentPoseFormTime |-> currentPoseFormTime,
        introPlayed |-> introPlayed, poseTimerStarted |-> poseTimerStarted,
        audioComplete |-> audioComplete, formCalibrated |-> formCalibrated,
        positioningTime |-> positioningTime,
        establishingElapsed |-> establishingElapsed,
        timerInterval |-> timerInterval,
        countdownInterval |-> countdownInterval, count |-> count,
        introPending |-> introPending, segAudio |-> segAudio, lpPc |-> lpPc,
        detectChains |-> detectChains,
        itemsLoaded |-> itemsLoaded, loadedBy |-> loadedBy,
        formMatchedSinceLoad |-> formMatchedSinceLoad,
        scoredTier |-> scoredTier, waitTicks |-> waitTicks,
        sessionSaved |-> sessionSaved, savedFormTracking |-> savedFormTracking]

SessionBecomes(s, name) ==
    /\ state' = s.state
    /\ segmentState' = s.segmentState
    /\ currentPose' = s.currentPose
    /\ currentPoseIndex' = s.currentPoseIndex
    /\ currentSegmentIndex' = s.currentSegmentIndex
    /\ poseTimeTotal' = s.poseTimeTotal
    /\ poseTimeRemaining' = s.poseTimeRemaining
    /\ goodFormTime' = s.goodFormTime
    /\ sessionElapsed' = s.sessionElapsed
    /\ matchScore' = s.matchScore
    /\ isFormGood' = s.isFormGood
    /\ currentFormLevel' = s.currentFormLevel
    /\ formTimeTracking' = s.formTimeTracking
    /\ currentPoseFormTime' = s.currentPoseFormTime
    /\ introPlayed' = s.introPlayed
    /\ poseTimerStarted' = s.poseTimerStarted
    /\ audioComplete' = s.audioComplete
    /\ formCalibrated' = s.formCalibrated
    /\ positioningTime' = s.positioningTime
    /\ establishingElapsed' = s.establishingElapsed
    /\ timerInterval' = s.timerInterval
    /\ countdownInterval' = s.countdownInterval
    /\ count' = s.count
    /\ introPending' = s.introPending
    /\ segAudio' = s.segAudio
    /\ lpPc' = s.lpPc
    /\ detectChains' = s.detectChains
    /\ itemsLoaded' = s.itemsLoaded
    /\ loadedBy' = s.loadedBy
    /\ formMatchedSinceLoad' = s.formMatchedSinceLoad
    /\ scoredTier' = s.scoredTier
    /\ waitTicks' = s.waitTicks
    /\ sessionSaved' = s.sessionSaved
    /\ savedFormTracking' = s.savedFormTracking
    /\ lastAction' = (IF name = "tick" THEN "tick" ELSE "event")
    /\ UNCHANGED useManifest

Becomes(s, name) ==
    /\ SessionBecomes(s, name)
    /\ UNCHANGED notSession

SumFormTime(f) == f["perfect"] + f["good"] + f["okay"] + f["needsWork"]

(* ---- the tier of a score ---- *)
\* variant: a score of exactly 65 is not yet perfect
FormLevelStrict(score) ==
    IF score > 65 THEN "perfect"
    ELSE IF score >= 45 THEN "good"
    ELSE IF score >= 25 THEN "okay"
    ELSE "needsWork"

FormLevel(score) ==
    IF score >= PerfectMin THEN "perfect"
    ELSE IF score >= GoodMin THEN "good"
    ELSE IF score >= OkayMin THEN "okay"
    ELSE "needsWork"

(* ---- segment state machine ---- *)
setSegmentState(s, newState) ==
    [s EXCEPT !.segmentState = newState, !.state = newState]

\* variant: the hold starts on calibrated form alone
checkReadyForHoldIgnoringAudio(s) ==
    IF s.formCalibrated
    THEN [setSegmentState(s, "active") EXCEPT !.poseTimerStarted = TRUE, !.waitTicks = 0]
    ELSE s

checkReadyForHold(s) ==
    IF s.audioComplete /\ s.formCalibrated
    THEN [setSegmentState(s, "active") EXCEPT !.poseTimerStarted = TRUE, !.waitTicks = 0]
    ELSE s

checkEstablishingTransition(s) ==
    IF s.segmentState # "establishing" THEN s
    ELSE LET elapsedMs == IF s.establishingElapsed = NoStartTime THEN 0 ELSE s.establishingElapsed
         IN IF s.matchScore >= FormMatchPercent \/ elapsedMs >= establishingTimeoutMs
            THEN [setSegmentState(s, "active") EXCEPT !.poseTimerStarted = TRUE, !.waitTicks = 0]
            ELSE s

capturePosePerformance(s) ==
    IF s.currentPose = 0 THEN s
    ELSE [s EXCEPT !.currentPoseFormTime = ZeroFormTime]

\* saveSessionData: the ledger goes to the report's storage
saveSessionData(s) ==
    [s EXCEPT !.sessionSaved = TRUE, !.savedFormTracking = s.formTimeTracking]

completeSession(s) ==
    LET s1 == [s EXCEPT !.state = "complete", !.timerInterval = FALSE]
    IN saveSessionData(IF s1.currentPose # 0 /\ SumFormTime(s1.currentPoseFormTime) > 0
                       THEN capturePosePerformance(s1)
                       ELSE s1)

loadPose(s, index) ==
    IF index >= Len(holdSeconds) THEN completeSession(s)
    ELSE [s EXCEPT !.currentPose = index + 1,
                   !.currentPoseIndex = index,
                   !.poseTimeTotal = holdSeconds[index + 1],
                   !.poseTimeRemaining = holdSeconds[index + 1],
                   !.goodFormTime = 0,
                   !.poseTimerStarted = FALSE,
                   !.currentFormLevel = "needsWork",
                   !.isFormGood = FALSE,
                   !.state = "instructions",
                   !.lpPc = "audio",
                   !.itemsLoaded = @ + 1,
                   !.loadedBy = "pose",
                   !.formMatchedSinceLoad = FALSE,
                   !.scoredTier = "none",
                   !.waitTicks = 0]

loadSegment(s, segmentIndex) ==
    IF segmentIndex >= Len(holdSeconds) THEN completeSession(s)
    ELSE [setSegmentState(s, "instructions") EXCEPT
                   !.currentSegmentIndex = segmentIndex,
                   !.currentPose = segmentIndex + 1,
                   !.currentPoseIndex = segmentIndex,
                   !.poseTimeTotal = holdSeconds[segmentIndex + 1],
                   !.poseTimeRemaining = holdSeconds[segmentIndex + 1],
                   !.goodFormTime = 0,
                   !.poseTimerStarted = FALSE,
                   !.audioComplete = FALSE,
                   !.formCalibrated = FALSE,
                   !.establishingElapsed = 0,
                   !.segAudio = "playing",
                   !.itemsLoaded = @ + 1,
                   !.loadedBy = "segment",
                   !.formMatchedSinceLoad = FALSE,
                   !.scoredTier = "none",
                   !.waitTicks = 0]

(* ---- one pass of the detection loop over a frame ---- *)
Scored(s, sc) ==
    [s EXCEPT !.matchScore = sc,
              !.currentFormLevel = FormLevel(sc),
              !.isFormGood = FormLevel(sc) \in GoodTiers,
              !.scoredTier = FormLevel(sc)]

runDetectionLoop(s, f) ==
    IF f.kind = "none" THEN s
    ELSE IF f.kind = "noPerson"
    THEN [s EXCEPT !.isFormGood = FALSE, !.matchScore = 0,
                   !.currentFormLevel = "needsWork", !.scoredTier = "needsWork"]
    ELSE IF s.state = "instructions"
    THEN [s EXCEPT !.formMatchedSinceLoad = @ \/ f.score >= FormMatchPercent]
    ELSE IF s.state = "transitioning" THEN s
    ELSE IF s.state = "establishing" THEN Scored(s, f.score)
    ELSE IF s.state \in {"active", "positioning"} /\ s.introPlayed
            /\ s.state \notin {"transition", "intro"}
    THEN Scored(s, f.score)
    ELSE [s EXCEPT !.isFormGood = FALSE]

(* a direct call of runDetectionLoop starts one more callback chain *)
startDetectionLoop(s, f) ==
    IF s.state \notin validStates THEN s
    ELSE [runDetectionLoop(s, f) EXCEPT !.detectChains = @ + 1]

(* ---- pause ---- *)
\* variant: resuming makes the item wait for its timer again
togglePauseRestartsHold(s, f) ==
    IF s.state = "active" THEN [s EXCEPT !.state = "paused"]
    ELSE IF s.state = "paused"
    THEN startDetectionLoop([s EXCEPT !.state = "active", !.poseTimerStarted = FALSE], f)
    ELSE s

togglePause(s, f) ==
    IF s.state = "active" THEN [s EXCEPT !.state = "paused"]
    ELSE IF s.state = "paused" THEN startDetectionLoop([s EXCEPT !.state = "active"], f)
    ELSE s

(* ---- session start ---- *)
startCountdown(s) ==
    [s EXCEPT !.state = "countdown", !.count = CountdownStart, !.countdownInterval = TRUE]

startSession(s, f) ==
    LET s1 == [s EXCEPT !.state = "intro",
                        !.currentPoseIndex = 0,
                        !.introPlayed = FALSE,
                        !.formTimeTracking = ZeroFormTime,
                        !.currentFormLevel = "needsWork",
                        !.currentPoseFormTime = ZeroFormTime]
    IN [startDetectionLoop(s1, f) EXCEPT !.introPending = TRUE]

startSessionResumed(s) ==
    LET s1 == [s EXCEPT !.introPlayed = TRUE, !.introPending = FALSE,
                        !.timerInterval = TRUE]
    IN IF useManifest THEN loadSegment(s1, 0) ELSE loadPose(s1, 0)

endSession(s) ==
    [saveSessionData(capturePosePerformance(s)) EXCEPT
        !.state = "complete", !.timerInterval = FALSE]

(* ---- the one-second timer callback ---- *)
Inc(n) == IF n < MaxElapsed THEN n + 1 ELSE n

AdvanceClock(s) ==
    IF s.establishingElapsed = NoStartTime THEN s
    ELSE [s EXCEPT !.establishingElapsed =
             IF @ + TickMs > establishingTimeoutMs + TickMs
             THEN establishingTimeoutMs + TickMs ELSE @ + TickMs]

\* variant: the instructions state has no timeout
TickInstructionsNoTimeout(s) ==
    IF s.isFormGood /\ ~s.formCalibrated
    THEN checkReadyForHold([s EXCEPT !.formCalibrated = TRUE])
    ELSE s

TickInstructions(s) ==
    LET s1 == IF s.isFormGood /\ ~s.formCalibrated
              THEN checkReadyForHold([s EXCEPT !.formCalibrated = TRUE])
              ELSE s
        elapsed == IF s1.establishingElapsed = NoStartTime THEN 0 ELSE s1.establishingElapsed
    IN IF elapsed > establishingTimeoutMs /\ ~s1.formCalibrated
       THEN checkReadyForHold([s1 EXCEPT !.formCalibrated = TRUE])
       ELSE s1

PoseComplete(s) ==
    LET s1 == [capturePosePerformance(s) EXCEPT
                  !.poseTimerStarted = FALSE, !.isFormGood = FALSE, !.matchScore = 0,
                  !.audioComplete = FALSE, !.formCalibrated = FALSE]
    IN IF useManifest
       THEN loadSegment([s1 EXCEPT !.currentSegmentIndex = @ + 1], s1.currentSegmentIndex + 1)
       ELSE loadPose([s1 EXCEPT !.currentPoseIndex = @ + 1], s1.currentPoseIndex + 1)

\* variant: a second outside good form is counted in no tier
TickCountedLedgerInGoodFormOnly(s) ==
    LET rec == s.sessionElapsed < MaxElapsed /\ s.isFormGood
        s1 == [s EXCEPT !.sessionElapsed = Inc(@),
                        !.formTimeTracking[s.currentFormLevel] = IF rec THEN @ + 1 ELSE @,
                        !.currentPoseFormTime[s.currentFormLevel] = IF rec THEN @ + 1 ELSE @]
        s2 == IF s1.isFormGood
              THEN [s1 EXCEPT !.poseTimeRemaining = @ - 1, !.goodFormTime = @ + 1]
              ELSE s1
    IN IF s2.poseTimeRemaining <= 0 THEN PoseComplete(s2) ELSE s2

\* variant: the countdown runs whatever the form
TickCountedAlwaysCountsDown(s) ==
    LET rec == s.sessionElapsed < MaxElapsed
        s1 == [s EXCEPT !.sessionElapsed = Inc(@),
                        !.formTimeTracking[s.currentFormLevel] = IF rec THEN @ + 1 ELSE @,
                        !.currentPoseFormTime[s.currentFormLevel] = IF rec THEN @ + 1 ELSE @]
        s2 == [s1 EXCEPT !.poseTimeRemaining = @ - 1, !.goodFormTime = @ + 1]
    IN IF s2.poseTimeRemaining <= 0 THEN PoseComplete(s2) ELSE s2

\* variant: the countdown runs without counting the second as held
TickCountedForgetsHeldTime(s) ==
    LET rec == s.sessionElapsed < MaxElapsed
        s1 == [s EXCEPT !.sessionElapsed = Inc(@),
                        !.formTimeTracking[s.currentFormLevel] = IF rec THEN @ + 1 ELSE @,
                        !.currentPoseFormTime[s.currentFormLevel] = IF rec THEN @ + 1 ELSE @]
        s2 == IF s1.isFormGood
              THEN [s1 EXCEPT !.poseTimeRemaining = @ - 1]
              ELSE s1
    IN IF s2.poseTimeRemaining <= 0 THEN PoseComplete(s2) ELSE s2

TickCounted(s) ==
    LET rec == s.sessionElapsed < MaxElapsed
        s1 == [s EXCEPT !.sessionElapsed = Inc(@),
                        !.formTimeTracking[s.currentFormLevel] = IF rec THEN @ + 1 ELSE @,
                        !.currentPoseFormTime[s.currentFormLevel] = IF rec THEN @ + 1 ELSE @]
        s2 == IF s1.isFormGood
              THEN [s1 EXCEPT !.poseTimeRemaining = @ - 1, !.goodFormTime = @ + 1]
              ELSE s1
    IN IF s2.poseTimeRemaining <= 0 THEN PoseComplete(s2) ELSE s2

\* variant: waiting for form has no limit
TickActiveNoAutoStart(s) ==
    IF ~s.poseTimerStarted
    THEN LET s1 == [s EXCEPT !.positioningTime = @ + 1, !.waitTicks = @ + 1]
         IN IF s1.isFormGood
            THEN TickCounted([s1 EXCEPT !.poseTimerStarted = TRUE, !.positioningTime = 0,
                                        !.waitTicks = 0])
            ELSE s1
    ELSE TickCounted(s)

TickActive(s) ==
    IF ~s.poseTimerStarted
    THEN LET s1 == [s EXCEPT !.positioningTime = @ + 1, !.waitTicks = @ + 1]
         IN IF s1.isFormGood
            THEN TickCounted([s1 EXCEPT !.poseTimerStarted = TRUE, !.positioningTime = 0,
                                        !.waitTicks = 0])
            ELSE IF s1.positioningTime >= PositioningLimit
            THEN TickCounted([s1 EXCEPT !.poseTimerStarted = TRUE, !.positioningTime = 0,
                                        !.waitTicks = 0])
            ELSE s1
    ELSE TickCounted(s)

\* variant: the callback does not return early while paused
runTimerLoopWhilePaused(s0) ==
    LET s == AdvanceClock(s0)
    IN IF s.state \in {"complete", "loading", "calibrating", "countdown"} THEN s
       ELSE IF s.state = "intro" THEN s
       ELSE IF s.state = "instructions" THEN TickInstructions(s)
       ELSE IF s.state \in {"transitioning", "transition", "positioning"} THEN s
       ELSE IF s.state = "establishing" THEN checkEstablishingTransition(s)
       ELSE TickActive(s)

runTimerLoop(s0) ==
    LET s == AdvanceClock(s0)
    IN IF s.state = "paused" THEN s
       ELSE IF s.state \in {"complete", "loading", "calibrating", "countdown"} THEN s
       ELSE IF s.state = "intro" THEN s
       ELSE IF s.state = "instructions" THEN TickInstructions(s)
       ELSE IF s.state = "transitioning" THEN s
       ELSE IF s.state = "establishing" THEN checkEstablishingTransition(s)
       ELSE IF s.state = "transition" THEN s
       ELSE IF s.state = "positioning" THEN s
       ELSE TickActive(s)

(* ---- remote commands ---- *)
\* variant: pause and resume toggle whatever the state
handleRemoteCommandTogglesAnywhere(s, command, f) ==
    IF command = "start"
    THEN (IF s.state = "calibrating" THEN startCountdown(s) ELSE s)
    ELSE IF command = "pause" \/ command = "resume"
    THEN togglePause(s, f)
    ELSE IF command = "skip"
    THEN (IF s.state = "active"
          THEN loadPose([s EXCEPT !.currentPoseIndex = @ + 1], s.currentPoseIndex + 1)
          ELSE s)
    ELSE IF command = "end"
    THEN [s EXCEPT !.state = "complete", !.timerInterval = FALSE]
    ELSE IF command = "skip_establishing"
    THEN (IF s.state = "establishing" \/ s.segmentState = "establishing"
          THEN [setSegmentState(s, "active") EXCEPT !.poseTimerStarted = TRUE, !.waitTicks = 0]
          ELSE s)
    ELSE s

handleRemoteCommand(s, command, f) ==
    IF command = "start"
    THEN (IF s.state = "calibrating" THEN startCountdown(s) ELSE s)
    ELSE IF command = "pause"
    THEN (IF s.state = "active" THEN togglePause(s, f) ELSE s)
    ELSE IF command = "resume"
    THEN (IF s.state = "paused" THEN togglePause(s, f) ELSE s)
    ELSE IF command = "skip"
    THEN (IF s.state = "active"
          THEN loadPose([s EXCEPT !.currentPoseIndex = @ + 1], s.currentPoseIndex + 1)
          ELSE s)
    ELSE IF command = "end"
    THEN [s EXCEPT !.state = "complete", !.timerInterval = FALSE]
    ELSE IF command = "skip_establishing"
    THEN (IF s.state = "establishing" \/ s.segmentState = "establishing"
          THEN [setSegmentState(s, "active") EXCEPT !.poseTimerStarted = TRUE, !.waitTicks = 0]
          ELSE s)
    ELSE s

(* ---- initial state: init() has loaded the queue and shown calibration ---- *)
\* the fields as the constructor leaves them
SessionConstructed ==
    /\ segmentState = "loading"
    /\ useManifest \in BOOLEAN
    /\ currentPose = 0
    /\ currentPoseIndex = 0
    /\ currentSegmentIndex = 0
    /\ poseTimeTotal = 0
    /\ poseTimeRemaining = 0
    /\ goodFormTime = 0
    /\ sessionElapsed = 0
    /\ matchScore = 0
    /\ isFormGood = FALSE
    /\ currentFormLevel = "needsWork"
    /\ formTimeTracking = ZeroFormTime
    /\ currentPoseFormTime = ZeroFormTime
    /\ introPlayed = FALSE
    /\ poseTimerStarted = FALSE
    /\ audioComplete = FALSE
    /\ formCalibrated = FALSE
    /\ positioningTime = 0
    /\ establishingElapsed = NoStartTime
    /\ timerInterval = FALSE
    /\ countdownInterval = FALSE
    /\ count = 0
    /\ introPending = FALSE
    /\ segAudio = "none"
    /\ lpPc = "none"
    /\ detectChains = 0
    /\ lastAction = "init"
    /\ itemsLoaded = 0
    /\ loadedBy = "none"
    /\ formMatchedSinceLoad = FALSE
    /\ scoredTier = "none"
    /\ waitTicks = 0
    /\ sessionSaved = FALSE
    /\ savedFormTracking = ZeroFormTime

SessionInit ==
    /\ state = "calibrating"
    /\ SessionConstructed

ClockInit ==
    /\ tickPhase = 0
    /\ measuring = FALSE
    /\ drift = 0

PostureInit ==
    /\ now = PageLoadMs
    /\ previousPostureZone = "good"
    /\ beepCooldownMs = DefaultCooldownMs
    /\ lastBeepTime = 0
    /\ smoothedDeviation = 0
    /\ alertsFired = 0
    /\ suppressedEntry = FALSE

CalibrationInit ==
    /\ calibrationFrames = 0
    /\ startBtnDisabled = StartBtnMarkupDisabled
    /\ startedBy = "none"
    /\ lastCalFrame = "none"

\* the manager is constructed with the page; no interpolator exists yet
InterpolationInit ==
    /\ perfNow = 0
    /\ lastUpdateTime = 0
    /\ interpolator = FALSE
    /\ interpElapsedMs = 0
    /\ isComplete = FALSE
    /\ durationMs = DefaultDurationMs
    /\ createdAt = 0
    /\ completedAt = 0

\* the socket is not yet connected and nothing has been sent
BroadcastInit ==
    /\ wallNow = WallStartMs
    /\ wsOpen = FALSE
    /\ lastStateBroadcast = 0
    /\ bcCount = 0
    /\ bcDue = 0
    /\ lastSentAt = NoSend
    /\ prevSentAt = NoSend
    /\ lastSnapshotAt = NoSend
    /\ prevSnapshotAt = NoSend
    /\ bcStatus = "running"
    /\ lastSnapshotStatus = "none"

\* the constructor leaves smoothedLandmarks null
SmoothInit ==
    /\ smoothedSet = FALSE
    /\ smoothedX = [kind |-> "num", v |-> 0]
    /\ lastRawX = [kind |-> "num", v |-> 0]
    /\ firstAfterReset = FALSE

\* no variation has been matched
VariationInit ==
    /\ variationMatchCounts = [v \in 1..NumVariations |-> 0]
    /\ currentMatchedVariation = 0
    /\ firstAtMax = 0

\* calibration has stored the ideal pose
DriftInit ==
    /\ calibratedX = CalibrationCentreMilli
    /\ originalX = CalibrationCentreMilli

\* the page has loaded and called connect once
ReconnectInit ==
    /\ pageState = "idle"
    /\ readyState = "connecting"
    /\ reconnectAttempts = 0
    /\ reconnectTimer = FALSE
    /\ startSessionSent = FALSE
    /\ hadConnection = FALSE

NumCalls == 3

\* the 64-character tokens the server issues
ServerTokens == {"serverA", "serverB"}

\* the 64-character tokens generateClientToken can produce
ClientTokens == {"clientA", "clientB"}

\* a new device: localStorage holds no token and no call has begun
TokenInit ==
    /\ storedToken = "none"
    /\ tokenPc = [c \in 1..NumCalls |-> "idle"]
    /\ tokenReturned = [c \in 1..NumCalls |-> "none"]

\* an empty ledger, not graded yet
GradeInit ==
    /\ gradeTracking = [perfect |-> 0, good |-> 0, okay |-> 0, needsWork |-> 0]
    /\ gradeLetter = "none"
    /\ gradeWeighted = 0
    /\ gradeTotal = 0

\* no frame has been classified
ClassifierInit ==
    /\ classifiedScore = 0
    /\ classifiedLevel = "needsWork"
    /\ classifiedGood = FALSE
    /\ earlierLevel = "needsWork"

\* monitoring starts in the good zone with no deviation
FineInit ==
    /\ fineDeviation = 0
    /\ fineZone = "good"
    /\ lastRawDeviation = 0
    /\ leftZones = {}

\* the monitor's page is loaded and idle
NoPersonInit ==
    /\ appNow = PageLoadMs
    /\ currentState = "idle"
    /\ lastLandmarkTime = 0
    /\ noPersonOverlayVisible = FALSE
    /\ missingSince = 0
    /\ lastLoopFrame = "none"
    /\ overlayRaised = FALSE

\* a queue of NumItems poses whose references define angles
ConfigInit ==
    /\ sessionQueueLength = NumItems
    /\ referenceAngles = TRUE
    /\ errorReported = FALSE

Init ==
    /\ SessionInit
    /\ ClockInit
    /\ PostureInit
    /\ CalibrationInit
    /\ InterpolationInit
    /\ BroadcastInit
    /\ SmoothInit
    /\ ConfigInit
    /\ NoPersonInit
    /\ FineInit
    /\ ClassifierInit
    /\ GradeInit
    /\ VariationInit
    /\ DriftInit
    /\ ReconnectInit
    /\ TokenInit

(* ---- actions ---- *)
\* click on the start button of the calibration overlay
StartButton ==
    /\ state = "calibrating"
    /\ Becomes(startCountdown(Cur), "startButton")

\* callback of the countdown interval
CountdownTick ==
    /\ countdownInterval
    /\ \E f \in FrameInputs :
         Becomes(IF count - 1 > 0
                 THEN [Cur EXCEPT !.count = @ - 1]
                 ELSE startSession([Cur EXCEPT !.count = @ - 1, !.countdownInterval = FALSE], f),
                 "countdown")

\* the session intro voice has finished: startSession continues
IntroDone ==
    /\ introPending
    /\ Becomes(startSessionResumed(Cur), "introDone")

\* callback of the timer interval
TimerTick ==
    /\ timerInterval
    /\ Becomes(runTimerLoop(Cur), "tick")

\* a scheduled callback of a detection chain, with a new video frame
Frame ==
    /\ detectChains > 0
    /\ \E f \in NewFrames :
         Becomes(IF state \notin validStates
                 THEN [Cur EXCEPT !.detectChains = @ - 1]
                 ELSE runDetectionLoop(Cur, f),
                 "frame")

\* playPoseStart of loadSegment has resolved
SegmentAudioDone ==
    /\ segAudio = "playing"
    /\ Becomes(checkReadyForHold([Cur EXCEPT !.audioComplete = TRUE, !.segAudio = "none"]),
               "segmentAudioDone")

\* playPoseStart awaited by loadPose has resolved
LoadPoseAudioDone ==
    /\ lpPc = "audio"
    /\ Becomes([Cur EXCEPT !.state = "positioning", !.lpPc = "delay"], "loadPoseAudioDone")

\* the 200 ms delay of loadPose has elapsed
LoadPoseDelayDone ==
    /\ lpPc = "delay"
    /\ Becomes([Cur EXCEPT !.state = "active", !.lpPc = "none"], "loadPoseDelayDone")

\* a command message from the remote
RemoteCommand ==
    \E command \in Commands : \E f \in FrameInputs :
        /\ (command = "resume" /\ state = "paused") => detectChains < MaxChains
        /\ (f.kind # "none") => (command = "resume" /\ state = "paused")
        /\ Becomes(handleRemoteCommand(Cur, command, f), command)

\* click on the pause button
PauseButton ==
    \E f \in FrameInputs :
        /\ state = "paused" => detectChains < MaxChains
        /\ (f.kind # "none") => state = "paused"
        /\ Becomes(togglePause(Cur, f), "pauseButton")

\* click on the end button, confirmed
EndButton ==
    /\ state \notin {"loading", "calibrating", "countdown"}
    /\ Becomes(endSession(Cur), "endButton")

Next ==
    \/ StartButton
    \/ CountdownTick
    \/ IntroDone
    \/ TimerTick
    \/ Frame
    \/ SegmentAudioDone
    \/ LoadPoseAudioDone
    \/ LoadPoseDelayDone
    \/ RemoteCommand
    \/ PauseButton
    \/ EndButton

Spec == Init /\ [][Next]_vars

(* The browser keeps calling the interval and animation-frame callbacks, and
   every voice item resolves (playVoiceItem gives up after 30 s at the latest);
   what the user and the remote do is under no obligation. *)
FairSpec ==
    /\ Init /\ [][Next]_vars
    /\ WF_vars(CountdownTick)
    /\ WF_vars(IntroDone)
    /\ WF_vars(TimerTick)
    /\ WF_vars(Frame)
    /\ WF_vars(SegmentAudioDone)
    /\ WF_vars(LoadPoseAudioDone)
    /\ WF_vars(LoadPoseDelayDone)

(* ---- the timer period in instants: pausing within a period ---- *)
\* the hold of the loaded item is running
Running == state = "active" /\ poseTimerStarted

Clamp(d) == IF d > MaxDrift THEN MaxDrift ELSE IF d < 0 - MaxDrift THEN 0 - MaxDrift ELSE d

\* an instant passes that is not the end of the timer period
SubTick ==
    /\ timerInterval
    /\ tickPhase < SubTicks - 1
    /\ tickPhase' = tickPhase + 1
    /\ drift' = IF measuring /\ Running THEN Clamp(drift + 1) ELSE drift
    /\ UNCHANGED <<sessionVars, measuring, notClock>>

\* the last instant of the period passes and the interval callback runs.
\* The drift is measured within one item, from the first callback that
\* leaves its hold running: instants of running hold minus the instants
\* the callbacks have counted.
TimedTick ==
    /\ timerInterval
    /\ tickPhase = SubTicks - 1
    /\ SessionBecomes(runTimerLoop(Cur), "tick")
    /\ tickPhase' = 0
    /\ measuring' = (/\ itemsLoaded' = itemsLoaded
                     /\ state' \in {"active", "paused"}
                     /\ sessionElapsed' < MaxElapsed
                     /\ (measuring \/ (state' = "active" /\ poseTimerStarted')))
    /\ drift' = IF measuring /\ measuring'
                THEN Clamp(drift + (IF Running THEN 1 ELSE 0)
                                 - SubTicks * (sessionElapsed' - sessionElapsed))
                ELSE 0
    /\ UNCHANGED notClock

PauseNext ==
    \/ StartButton
    \/ CountdownTick
    \/ IntroDone
    \/ SubTick
    \/ TimedTick
    \/ Frame
    \/ SegmentAudioDone
    \/ LoadPoseAudioDone
    \/ LoadPoseDelayDone
    \/ PauseButton

PauseSpec == Init /\ [][PauseNext]_vars

(* ---- calibration: the frames before the countdown ---- *)
CalibrationFrames == {"none", "noPerson", "outOfFrame", "inFrame"}

CalibrationCur ==
    [calibrationFrames |-> calibrationFrames, startBtnDisabled |-> startBtnDisabled]

\* variant: a frame out of the margins leaves the start button as it is
runCalibrationLoopKeepsButton(c, f) ==
    IF f = "none" THEN c
    ELSE IF f = "noPerson"
    THEN [c EXCEPT !.calibrationFrames = 0, !.startBtnDisabled = TRUE]
    ELSE IF f = "inFrame"
    THEN LET c1 == [c EXCEPT !.calibrationFrames = @ + 1]
         IN IF c1.calibrationFrames >= CalibrationGoal
            THEN [c1 EXCEPT !.startBtnDisabled = FALSE]
            ELSE c1
    ELSE [c EXCEPT !.calibrationFrames =
                      IF @ - CalibrationPenalty > 0 THEN @ - CalibrationPenalty ELSE 0]

\* one pass of the calibration loop in state calibrating
runCalibrationLoop(c, f) ==
    IF f = "none" THEN c
    ELSE IF f = "noPerson"
    THEN [c EXCEPT !.calibrationFrames = 0, !.startBtnDisabled = TRUE]
    ELSE IF f = "inFrame"
    THEN LET c1 == [c EXCEPT !.calibrationFrames = @ + 1]
         IN IF c1.calibrationFrames >= CalibrationGoal
            THEN [c1 EXCEPT !.startBtnDisabled = FALSE]
            ELSE c1
    ELSE [c EXCEPT !.calibrationFrames =
                      IF @ - CalibrationPenalty > 0 THEN @ - CalibrationPenalty ELSE 0,
                   !.startBtnDisabled = TRUE]

\* a scheduled callback of the calibration loop
CalibrationFrame ==
    /\ state = "calibrating"
    /\ \E f \in CalibrationFrames :
         /\ f = "inFrame" => calibrationFrames < MaxCalibrationFrames
         /\ LET c == runCalibrationLoop(CalibrationCur, f)
            IN /\ calibrationFrames' = c.calibrationFrames
               /\ startBtnDisabled' = c.startBtnDisabled
               /\ lastCalFrame' = IF f = "none" THEN lastCalFrame ELSE f
    /\ UNCHANGED <<sessionVars, startedBy, notCalibration>>

\* click on the start button, which a disabled button does not deliver
CalibratedStartButton ==
    /\ state = "calibrating"
    /\ ~startBtnDisabled
    /\ SessionBecomes(startCountdown(Cur), "startButton")
    /\ startedBy' = "button"
    /\ UNCHANGED <<calibrationFrames, startBtnDisabled, lastCalFrame, notCalibration>>

\* the remote sends the start command
RemoteStart ==
    /\ SessionBecomes(handleRemoteCommand(Cur, "start", [kind |-> "none", score |-> 0]), "start")
    /\ startedBy' = IF state = "calibrating" THEN "remote" ELSE startedBy
    /\ UNCHANGED <<calibrationFrames, startBtnDisabled, lastCalFrame, notCalibration>>

CalibrationNext ==
    \/ CalibrationFrame
    \/ CalibratedStartButton
    \/ RemoteStart
    \/ CountdownTick

CalibrationSpec == Init /\ [][CalibrationNext]_vars

(* ---- the tier classifier over all scores ---- *)
MatchScores == 0..MaxScore

\* a frame is scored: updateFormStatus and the good-form flag after it
ClassifyFrame ==
    \E sc \in MatchScores :
        LET s == Scored([Cur EXCEPT !.currentFormLevel = classifiedLevel,
                                    !.isFormGood = classifiedGood], sc)
        IN /\ classifiedScore' = s.matchScore
           /\ classifiedLevel' = s.currentFormLevel
           /\ classifiedGood' = s.isFormGood
           /\ earlierLevel' = classifiedLevel
           /\ UNCHANGED notClassifier

ClassifierNext ==
    \/ ClassifyFrame

ClassifierSpec == Init /\ [][ClassifierNext]_vars

(* ---- the variation a pose is performed in ---- *)
\* the counts and the matched variation after a frame whose scores against
\* the variations are given; the loop keeps the first variation of the
\* best score
calculateBestVariationMatch(counts, matched, scores) ==
    LET better(v) == \A w \in 1..NumVariations :
                        /\ scores[w] <= scores[v]
                        /\ w < v => scores[w] < scores[v]
        best == IF \A v \in 1..NumVariations : scores[v] = 0 THEN 0
                ELSE CHOOSE v \in 1..NumVariations : better(v)
    IN IF best # 0 /\ scores[best] >= GoodMin
       THEN LET newCounts == [counts EXCEPT ![best] = @ + 1]
                maxCount == CHOOSE m \in 0..(MaxMatches + 1) :
                               /\ \E v \in 1..NumVariations : newCounts[v] = m
                               /\ \A v \in 1..NumVariations : newCounts[v] <= m
            IN [counts |-> newCounts,
                matched |-> IF newCounts[best] = maxCount THEN best ELSE matched,
                best |-> best]
       ELSE [counts |-> counts, matched |-> matched, best |-> 0]

\* a frame is scored against every variation
MatchFrame ==
    \E scores \in [1..NumVariations -> Scores] :
        LET r == calculateBestVariationMatch(variationMatchCounts,
                                             currentMatchedVariation, scores)
        IN /\ \A v \in 1..NumVariations : r.counts[v] <= MaxMatches
           /\ variationMatchCounts' = r.counts
           /\ currentMatchedVariation' = r.matched
           /\ firstAtMax' = IF r.best # 0 /\ \A v \in 1..NumVariations :
                                               r.counts[r.best] > variationMatchCounts[v]
                            THEN r.best ELSE firstAtMax
           /\ UNCHANGED notVariation

\* loadPose: the tally starts again for the next pose
ResetVariations ==
    /\ variationMatchCounts' = [v \in 1..NumVariations |-> 0]
    /\ currentMatchedVariation' = 0
    /\ firstAtMax' = 0
    /\ UNCHANGED notVariation

VariationNext ==
    \/ MatchFrame
    \/ ResetVariations

VariationSpec == Init /\ [][VariationNext]_vars

(* ---- the adaptive baseline of the posture monitor ---- *)
\* a coordinate of the ideal pose blended toward the current one
adaptBaseline(ideal, current) ==
    (ideal * (100 - BlendRatePercent) + current * BlendRatePercent) \div 100

\* ten seconds in the good zone have passed: the user sits within the
\* lateral tolerance of the ideal pose, and the ideal pose is blended
GoodPostureSustained ==
    \E current \in 0..MaxCoordMilli :
        /\ (IF current > calibratedX THEN current - calibratedX
            ELSE calibratedX - current) <= ToleranceLateralMilli
        /\ calibratedX' = adaptBaseline(calibratedX, current)
        /\ UNCHANGED <<originalX, notDrift>>

\* calibration_complete: the last landmarks become the ideal pose
CalibrationComplete ==
    /\ calibratedX' = CalibrationCentreMilli
    /\ originalX' = CalibrationCentreMilli
    /\ UNCHANGED notDrift

DriftNext ==
    \/ GoodPostureSustained
    \/ CalibrationComplete

DriftSpec == Init /\ [][DriftNext]_vars

(* ---- the posture socket: reconnection ---- *)

MaxReconnectAttempts == 5

\* the page's connection handler: TRUE when it sends start_session
onConnectionChange(connected, wasConnectedBefore, page) ==
    connected /\ wasConnectedBefore /\ page = "monitoring"

\* socket.onopen: the counter is reset and the handler is called with
\* (true, false)
SocketOnOpen ==
    /\ readyState = "connecting"
    /\ readyState' = "open"
    /\ reconnectAttempts' = 0
    /\ startSessionSent' = onConnectionChange(TRUE, FALSE, pageState)
    /\ UNCHANGED <<pageState, reconnectTimer, hadConnection, notReconnect>>

\* socket.onclose, after an open socket or a failed attempt: the handler is
\* called with (false, true) and a reconnect is scheduled while attempts remain
SocketOnClose ==
    /\ readyState \in {"connecting", "open"}
    /\ readyState' = "closed"
    /\ startSessionSent' = (startSessionSent \/ onConnectionChange(FALSE, TRUE, pageState))
    /\ hadConnection' = (hadConnection \/ readyState = "open")
    /\ IF reconnectAttempts < MaxReconnectAttempts
       THEN reconnectAttempts' = reconnectAttempts + 1 /\ reconnectTimer' = TRUE
       ELSE UNCHANGED <<reconnectAttempts, reconnectTimer>>
    /\ UNCHANGED <<pageState, notReconnect>>

\* the two-second reconnect timer fires: connect makes a new socket
ReconnectTimerFires ==
    /\ reconnectTimer
    /\ reconnectTimer' = FALSE
    /\ readyState' = "connecting"
    /\ startSessionSent' = FALSE
    /\ UNCHANGED <<pageState, reconnectAttempts, hadConnection, notReconnect>>

\* the start button: camera and model are ready, calibration begins
StartSessionClicked ==
    /\ pageState = "idle"
    /\ pageState' = "calibrating"
    /\ UNCHANGED <<readyState, reconnectAttempts, reconnectTimer, startSessionSent,
                   hadConnection, notReconnect>>

\* forceStartActive: monitoring begins and start_session is sent on an open socket
ForceStartActiveOnSocket ==
    /\ pageState = "calibrating"
    /\ pageState' = "monitoring"
    /\ startSessionSent' = (startSessionSent \/ readyState = "open")
    /\ UNCHANGED <<readyState, reconnectAttempts, reconnectTimer, hadConnection, notReconnect>>

ReconnectNext ==
    \/ SocketOnOpen
    \/ SocketOnClose
    \/ ReconnectTimerFires
    \/ StartSessionClicked
    \/ ForceStartActiveOnSocket

ReconnectSpec == Init /\ [][ReconnectNext]_vars

(* ---- the device token ---- *)

\* getDeviceToken up to its first await: a well-formed stored token is returned
\* at once, otherwise the request to the server is sent
getDeviceTokenCall(c) ==
    /\ tokenPc[c] = "idle"
    /\ IF storedToken \in ServerTokens \cup ClientTokens
       THEN /\ tokenPc' = [tokenPc EXCEPT ![c] = "done"]
            /\ tokenReturned' = [tokenReturned EXCEPT ![c] = storedToken]
       ELSE /\ tokenPc' = [tokenPc EXCEPT ![c] = "fetching"]
            /\ UNCHANGED tokenReturned
    /\ UNCHANGED <<storedToken, notToken>>

\* the server's reply carries a token: it is stored and returned
FetchReturnsToken(c, token) ==
    /\ tokenPc[c] = "fetching"
    /\ storedToken' = token
    /\ tokenPc' = [tokenPc EXCEPT ![c] = "done"]
    /\ tokenReturned' = [tokenReturned EXCEPT ![c] = token]
    /\ UNCHANGED notToken

\* the request fails or the reply has no token: a client-side random token is
\* stored and returned
FetchFails(c, token) ==
    /\ tokenPc[c] = "fetching"
    /\ storedToken' = token
    /\ tokenPc' = [tokenPc EXCEPT ![c] = "done"]
    /\ tokenReturned' = [tokenReturned EXCEPT ![c] = token]
    /\ UNCHANGED notToken

TokenNext ==
    \/ \E c \in 1..NumCalls : getDeviceTokenCall(c)
    \/ \E c \in 1..NumCalls, token \in ServerTokens : FetchReturnsToken(c, token)
    \/ \E c \in 1..NumCalls, token \in ClientTokens : FetchFails(c, token)

TokenSpec == Init /\ [][TokenNext]_vars

(* ---- the final grade of a ledger ---- *)
LedgerTotal(ft) == ft.perfect + ft.good + ft.okay + ft.needsWork

\* variant: a second in the good tier weighs 80
calculateFinalGradeGoodAt80(ft) ==
    LET total == LedgerTotal(ft)
        weighted == ft.perfect * 100 + ft.good * 80 + ft.okay * 70 + ft.needsWork * 40
        AtLeast(k) == weighted >= k * total
    IN IF total = 0
       THEN [letter |-> "N/A", weighted |-> 0, total |-> 0]
       ELSE [letter |-> IF AtLeast(95) THEN "A+"
                        ELSE IF AtLeast(90) THEN "A"
                        ELSE IF AtLeast(85) THEN "B+"
                        ELSE IF AtLeast(80) THEN "B"
                        ELSE IF AtLeast(75) THEN "C+"
                        ELSE IF AtLeast(70) THEN "C"
                        ELSE IF AtLeast(60) THEN "D"
                        ELSE "F",
             weighted |-> weighted, total |-> total]

\* the score is weighted / total; score >= k is compared as weighted >= k * total
calculateFinalGrade(ft) ==
    LET total == LedgerTotal(ft)
        weighted == ft.perfect * 100 + ft.good * 85 + ft.okay * 70 + ft.needsWork * 40
        AtLeast(k) == weighted >= k * total
    IN IF total = 0
       THEN [letter |-> "N/A", weighted |-> 0, total |-> 0]
       ELSE [letter |-> IF AtLeast(95) THEN "A+"
                        ELSE IF AtLeast(90) THEN "A"
                        ELSE IF AtLeast(85) THEN "B+"
                        ELSE IF AtLeast(80) THEN "B"
                        ELSE IF AtLeast(75) THEN "C+"
                        ELSE IF AtLeast(70) THEN "C"
                        ELSE IF AtLeast(60) THEN "D"
                        ELSE "F",
             weighted |-> weighted, total |-> total]

\* a second of hold is counted in the tier of the moment
TrackSecond ==
    /\ gradeLetter = "none"
    /\ LedgerTotal(gradeTracking) < MaxGradeSeconds
    /\ \E tier \in Tiers :
           gradeTracking' = [gradeTracking EXCEPT ![tier] = @ + 1]
    /\ UNCHANGED <<gradeLetter, gradeWeighted, gradeTotal, notGrade>>

\* the session ends and the ledger is graded
GradeSession ==
    /\ gradeLetter = "none"
    /\ LET g == calculateFinalGrade(gradeTracking)
       IN /\ gradeLetter' = g.letter
          /\ gradeWeighted' = g.weighted
          /\ gradeTotal' = g.total
    /\ UNCHANGED <<gradeTracking, notGrade>>

GradeNext ==
    \/ TrackSecond
    \/ GradeSession

GradeSpec == Init /\ [][GradeNext]_vars

(* ---- the posture monitor: zones of an oscillating deviation ---- *)
OscillationBand == {OscillationLowMilli, OscillationHighMilli}
FineRawDeviations == {0, SustainedHighMilli} \cup OscillationBand

Distance(a, b) == IF a > b THEN a - b ELSE b - a

\* smoothedDeviation * 0.75 + rawDeviation * 0.25 outside the deadband
SmoothDeviationFine(old, raw) ==
    IF Distance(raw, old) > DeadbandMilli
    THEN (old * 75 + raw * 25) \div 100
    ELSE old

PostureZoneFine(deviationAmount) ==
    IF deviationAmount < WarningFromMilli THEN "good"
    ELSE IF deviationAmount < BadFromMilli THEN "warning"
    ELSE "bad"

\* a monitored frame: smoothing and zone of checkPostureImmediate
FineFrame ==
    \E raw \in FineRawDeviations :
        LET oscillating == /\ raw # lastRawDeviation
                           /\ raw \in OscillationBand
                           /\ lastRawDeviation \in OscillationBand
            d == SmoothDeviationFine(fineDeviation, raw)
            zone == PostureZoneFine(d)
        IN /\ fineDeviation' = d
           /\ fineZone' = zone
           /\ lastRawDeviation' = raw
           /\ leftZones' = IF ~oscillating THEN {}
                           ELSE IF zone # fineZone THEN leftZones \cup {fineZone}
                           ELSE leftZones
           /\ UNCHANGED notFine

FineNext ==
    \/ FineFrame

FineSpec == Init /\ [][FineNext]_vars

(* ---- the posture monitor: the no-person overlay ---- *)
LoopGaps == {LoopGapShortMs, LoopGapLongMs}
LoopFrames == {"person", "noPerson"}

NoPersonCur ==
    [appNow |-> appNow, currentState |-> currentState,
     lastLandmarkTime |-> lastLandmarkTime,
     noPersonOverlayVisible |-> noPersonOverlayVisible,
     missingSince |-> missingSince, lastLoopFrame |-> lastLoopFrame,
     overlayRaised |-> overlayRaised]

NoPersonBecomes(m) ==
    /\ appNow' = m.appNow
    /\ currentState' = m.currentState
    /\ lastLandmarkTime' = m.lastLandmarkTime
    /\ noPersonOverlayVisible' = m.noPersonOverlayVisible
    /\ missingSince' = m.missingSince
    /\ lastLoopFrame' = m.lastLoopFrame
    /\ overlayRaised' = m.overlayRaised
    /\ UNCHANGED notNoPerson

showNoPersonOverlay(m) ==
    IF ~m.noPersonOverlayVisible
    THEN [m EXCEPT !.noPersonOverlayVisible = TRUE, !.overlayRaised = TRUE]
    ELSE m

hideNoPersonOverlay(m) ==
    IF m.noPersonOverlayVisible THEN [m EXCEPT !.noPersonOverlayVisible = FALSE] ELSE m

\* variant: a frame without a person raises the overlay at once
loopRaisesAtOnce(m, f) ==
    IF m.currentState = "idle" THEN m
    ELSE IF f = "person"
    THEN hideNoPersonOverlay([m EXCEPT !.lastLandmarkTime = m.appNow])
    ELSE showNoPersonOverlay(m)

\* one pass of the processing loop on a video frame
loop(m, f) ==
    IF m.currentState = "idle" THEN m
    ELSE IF f = "person"
    THEN hideNoPersonOverlay([m EXCEPT !.lastLandmarkTime = m.appNow])
    ELSE IF m.currentState # "idle"
            /\ m.appNow - m.lastLandmarkTime > NO_PERSON_TIMEOUT_MS
    THEN showNoPersonOverlay(m)
    ELSE m

\* the session button: calibration starts and with it the loop
StartMonitorSession ==
    /\ currentState = "idle"
    /\ NoPersonBecomes([NoPersonCur EXCEPT !.currentState = "calibrating",
                                            !.lastLandmarkTime = appNow,
                                            !.missingSince = appNow])

\* calibration ends
forceStartActive ==
    /\ currentState = "calibrating"
    /\ NoPersonBecomes([NoPersonCur EXCEPT !.currentState = "monitoring"])

\* the page waits, idle
IdleTime ==
    /\ currentState = "idle"
    /\ appNow + LoopGapLongMs <= MaxAppMs + PageLoadMs
    /\ NoPersonBecomes([NoPersonCur EXCEPT !.appNow = @ + LoopGapLongMs])

\* an animation frame of the loop, some time after the previous one
LoopFrame ==
    \E gap \in LoopGaps : \E f \in LoopFrames :
        /\ currentState # "idle"
        /\ appNow + gap <= MaxAppMs + PageLoadMs
        /\ NoPersonBecomes(loop([NoPersonCur EXCEPT
                                    !.appNow = @ + gap,
                                    !.lastLoopFrame = f,
                                    !.missingSince = IF f = "person" THEN appNow + gap ELSE @],
                                 f))

NoPersonNext ==
    \/ StartMonitorSession
    \/ forceStartActive
    \/ IdleTime
    \/ LoopFrame

NoPersonSpec == Init /\ [][NoPersonNext]_vars

(* ---- configuration: init() on any queue and reference ---- *)
\* the page before init() has run, with any configuration
LoadingInit ==
    /\ state = "loading"
    /\ SessionConstructed
    /\ ClockInit
    /\ PostureInit
    /\ CalibrationInit
    /\ InterpolationInit
    /\ BroadcastInit
    /\ SmoothInit
    /\ NoPersonInit
    /\ FineInit
    /\ ClassifierInit
    /\ GradeInit
    /\ sessionQueueLength \in {0, NumItems}
    /\ referenceAngles \in BOOLEAN
    /\ errorReported = FALSE
    /\ VariationInit
    /\ DriftInit
    /\ ReconnectInit
    /\ TokenInit

\* calculatePoseMatch: 0 without reference angles, else the angle match
calculatePoseMatch(angles, sc) ==
    IF ~angles THEN 0 ELSE sc

\* init(): an empty queue is reported and the page left; else calibration
InitPage ==
    /\ state = "loading"
    /\ ~errorReported
    /\ IF sessionQueueLength = 0
       THEN /\ errorReported' = TRUE
            /\ UNCHANGED <<sessionVars, sessionQueueLength, referenceAngles>>
       ELSE /\ SessionBecomes([Cur EXCEPT !.state = "calibrating"], "init")
            /\ UNCHANGED configVars
    /\ UNCHANGED <<clockVars, postureVars, calibVars, interpVars, broadcastVars,
                   smoothVars, noPersonVars, fineVars, classifierVars, gradeVars, variationVars, driftVars, reconnectVars, tokenVars>>

\* a callback of a detection chain, scored against the configured reference
ConfigFrame ==
    /\ detectChains > 0
    /\ \E f \in NewFrames :
         Becomes(IF state \notin validStates
                 THEN [Cur EXCEPT !.detectChains = @ - 1]
                 ELSE runDetectionLoop(Cur, [f EXCEPT !.score =
                                                calculatePoseMatch(referenceAngles, @)]),
                 "frame")

ConfigNext ==
    \/ InitPage
    \/ StartButton
    \/ CountdownTick
    \/ IntroDone
    \/ TimerTick
    \/ ConfigFrame
    \/ SegmentAudioDone
    \/ LoadPoseAudioDone
    \/ LoadPoseDelayDone

ConfigSpec == LoadingInit /\ [][ConfigNext]_vars

(* ---- landmark smoothing ---- *)
\* a coordinate of a raw frame: a number, or NaN
RawCoords ==
    {[kind |-> "num", v |-> 0], [kind |-> "num", v |-> 40],
     [kind |-> "num", v |-> Hundred], [kind |-> "NaN", v |-> 0]}

\* JSON.parse(JSON.stringify(c)): NaN is written as null
JsonCopy(c) ==
    IF c.kind = "NaN" THEN [kind |-> "null", v |-> 0] ELSE c

\* old * (1 - smoothingFactor) + raw * smoothingFactor; null counts as 0
Ema(old, raw) ==
    IF old.kind = "NaN" \/ raw.kind = "NaN" THEN [kind |-> "NaN", v |-> 0]
    ELSE [kind |-> "num",
          v |-> (old.v * (Hundred - smoothingFactor) + raw.v * smoothingFactor) \div Hundred]

SmoothCur ==
    [smoothedSet |-> smoothedSet, smoothedX |-> smoothedX,
     lastRawX |-> lastRawX, firstAfterReset |-> firstAfterReset]

SmoothBecomes(m) ==
    /\ smoothedSet' = m.smoothedSet
    /\ smoothedX' = m.smoothedX
    /\ lastRawX' = m.lastRawX
    /\ firstAfterReset' = m.firstAfterReset
    /\ UNCHANGED notSmooth

smoothLandmarks(m, raw) ==
    IF ~m.smoothedSet
    THEN [m EXCEPT !.smoothedSet = TRUE, !.smoothedX = JsonCopy(raw),
                   !.lastRawX = raw, !.firstAfterReset = TRUE]
    ELSE [m EXCEPT !.smoothedX = Ema(m.smoothedX, raw),
                   !.lastRawX = raw, !.firstAfterReset = FALSE]

\* loadSegment and loadPose discard the smoothed frame
resetSmoothing(m) ==
    [m EXCEPT !.smoothedSet = FALSE, !.firstAfterReset = FALSE]

\* a new item is loaded
LoadItem ==
    /\ smoothedSet
    /\ SmoothBecomes(resetSmoothing(SmoothCur))

\* a video frame with landmarks reaches the detection loop
DetectionFrame ==
    \E raw \in RawCoords :
        /\ raw \in RawCoords
        /\ SmoothBecomes(smoothLandmarks(SmoothCur, raw))

SmoothNext ==
    \/ LoadItem
    \/ DetectionFrame

SmoothSpec == Init /\ [][SmoothNext]_vars

(* ---- state broadcasts to the remote display ---- *)
BroadcastCur ==
    [wallNow |-> wallNow, wsOpen |-> wsOpen, lastStateBroadcast |-> lastStateBroadcast,
     bcCount |-> bcCount, bcDue |-> bcDue,
     lastSentAt |-> lastSentAt, prevSentAt |-> prevSentAt,
     lastSnapshotAt |-> lastSnapshotAt, prevSnapshotAt |-> prevSnapshotAt,
     bcStatus |-> bcStatus, lastSnapshotStatus |-> lastSnapshotStatus]

BroadcastBecomes(b) ==
    /\ wallNow' = b.wallNow
    /\ wsOpen' = b.wsOpen
    /\ lastStateBroadcast' = b.lastStateBroadcast
    /\ bcCount' = b.bcCount
    /\ bcDue' = b.bcDue
    /\ lastSentAt' = b.lastSentAt
    /\ prevSentAt' = b.prevSentAt
    /\ lastSnapshotAt' = b.lastSnapshotAt
    /\ prevSnapshotAt' = b.prevSnapshotAt
    /\ bcStatus' = b.bcStatus
    /\ lastSnapshotStatus' = b.lastSnapshotStatus
    /\ UNCHANGED notBroadcast

\* ws.send of a state_update message
wsSend(b) ==
    [b EXCEPT !.prevSentAt = b.lastSentAt, !.lastSentAt = b.wallNow]

\* variant: every call sends a snapshot
broadcastStateUnthrottled(b) ==
    IF ~b.wsOpen THEN b
    ELSE wsSend([b EXCEPT !.lastStateBroadcast = b.wallNow,
                          !.prevSnapshotAt = b.lastSnapshotAt,
                          !.lastSnapshotAt = b.wallNow,
                          !.lastSnapshotStatus = b.bcStatus])

broadcastState(b) ==
    IF ~b.wsOpen THEN b
    ELSE IF b.wallNow - b.lastStateBroadcast < BroadcastThrottleMs THEN b
    ELSE wsSend([b EXCEPT !.lastStateBroadcast = b.wallNow,
                          !.prevSnapshotAt = b.lastSnapshotAt,
                          !.lastSnapshotAt = b.wallNow,
                          !.lastSnapshotStatus = b.bcStatus])

broadcastCountdown(b) ==
    IF ~b.wsOpen THEN b ELSE wsSend(b)

\* time passes up to the next callback of the countdown
WallTimePasses ==
    /\ wallNow + WallStepMs <= MaxWallMs
    /\ bcCount > 0 => wallNow + WallStepMs <= bcDue
    /\ BroadcastBecomes([BroadcastCur EXCEPT !.wallNow = @ + WallStepMs])

\* the socket opens and the session pushes its state
WsOpen ==
    /\ ~wsOpen
    /\ BroadcastBecomes(broadcastState([BroadcastCur EXCEPT !.wsOpen = TRUE]))

WsClose ==
    /\ wsOpen
    /\ BroadcastBecomes([BroadcastCur EXCEPT !.wsOpen = FALSE])

\* any handler that ends with a push of the state
BroadcastStateCall ==
    /\ wallNow <= MaxWallMs
    /\ BroadcastBecomes(broadcastState(BroadcastCur))

\* completeSession: the state becomes complete and is pushed
CompleteSessionCall ==
    /\ bcStatus = "running"
    /\ bcCount = 0
    /\ BroadcastBecomes(broadcastState([BroadcastCur EXCEPT !.bcStatus = "complete"]))

\* startCountdown: the first value is pushed, the interval is set
StartCountdownCall ==
    /\ bcStatus = "running"
    /\ bcCount = 0
    /\ wallNow + CountdownStart * TickMs <= MaxWallMs
    /\ BroadcastBecomes(broadcastCountdown([BroadcastCur EXCEPT
                            !.bcCount = CountdownStart, !.bcDue = wallNow + TickMs]))

\* the interval callback of the countdown; at zero startSession pushes the state
CountdownIntervalCall ==
    /\ bcStatus = "running"
    /\ bcCount > 0
    /\ wallNow = bcDue
    /\ BroadcastBecomes(
          IF bcCount - 1 > 0
          THEN broadcastCountdown([BroadcastCur EXCEPT !.bcCount = @ - 1,
                                                       !.bcDue = @ + TickMs])
          ELSE broadcastState([BroadcastCur EXCEPT !.bcCount = 0]))

BroadcastNext ==
    \/ WallTimePasses
    \/ WsOpen
    \/ WsClose
    \/ BroadcastStateCall
    \/ StartCountdownCall
    \/ CountdownIntervalCall
    \/ CompleteSessionCall

BroadcastSpec == Init /\ [][BroadcastNext]_vars

\* the wall clock does not stop
FairBroadcastSpec == BroadcastSpec /\ WF_vars(WallTimePasses)

(* ---- skeleton interpolation between items ---- *)
Durations == {ShortDurationMs, DefaultDurationMs}

InterpolationCur ==
    [perfNow |-> perfNow, lastUpdateTime |-> lastUpdateTime,
     interpolator |-> interpolator, elapsedMs |-> interpElapsedMs,
     isComplete |-> isComplete, durationMs |-> durationMs,
     createdAt |-> createdAt, completedAt |-> completedAt]

InterpolationBecomes(m) ==
    /\ perfNow' = m.perfNow
    /\ lastUpdateTime' = m.lastUpdateTime
    /\ interpolator' = m.interpolator
    /\ interpElapsedMs' = m.elapsedMs
    /\ isComplete' = m.isComplete
    /\ durationMs' = m.durationMs
    /\ createdAt' = m.createdAt
    /\ completedAt' = m.completedAt
    /\ UNCHANGED notInterpolation

\* SkeletonInterpolator.update; onComplete clears the session's interpolator
SkeletonInterpolatorUpdate(m, deltaMs) ==
    IF m.isComplete THEN m
    ELSE LET m1 == [m EXCEPT !.elapsedMs = @ + deltaMs]
         IN IF m1.elapsedMs >= m1.durationMs
            THEN [m1 EXCEPT !.isComplete = TRUE, !.interpolator = FALSE,
                            !.completedAt = m1.perfNow]
            ELSE m1

\* InterpolationManager.updateAll at the current time
updateAll(m) ==
    LET deltaMs == m.perfNow - m.lastUpdateTime
    IN SkeletonInterpolatorUpdate([m EXCEPT !.lastUpdateTime = m.perfNow], deltaMs)

\* one pass of the interpolation loop
interpolationLoop(m) ==
    IF ~m.interpolator \/ m.isComplete THEN m ELSE updateAll(m)

\* runInterpolation: create the interpolator, then the first pass of the loop
runInterpolation(m, d) ==
    interpolationLoop([m EXCEPT !.interpolator = TRUE, !.elapsedMs = 0,
                                !.isComplete = FALSE, !.durationMs = d,
                                !.createdAt = m.perfNow])

\* a hold runs; no interpolation loop is scheduled
HoldTime ==
    /\ ~interpolator
    /\ perfNow + HoldGapMs <= MaxPerfNowMs
    /\ InterpolationBecomes([InterpolationCur EXCEPT !.perfNow = @ + HoldGapMs])

\* loadSegment of a segment after the first starts the interpolation
RunInterpolation ==
    /\ perfNow <= MaxPerfNowMs
    /\ \E d \in Durations : InterpolationBecomes(runInterpolation(InterpolationCur, d))

\* the animation frame callback of the interpolation loop
AnimationFrame ==
    /\ interpolator
    /\ perfNow + AnimationFrameMs <= MaxPerfNowMs
    /\ InterpolationBecomes(interpolationLoop([InterpolationCur EXCEPT
                                                  !.perfNow = @ + AnimationFrameMs]))

InterpolationNext ==
    \/ HoldTime
    \/ RunInterpolation
    \/ AnimationFrame

InterpolationSpec == Init /\ [][InterpolationNext]_vars

(* ---- the posture monitor: zone alerts ---- *)
PostureCur ==
    [now |-> now, previousPostureZone |-> previousPostureZone,
     beepCooldownMs |-> beepCooldownMs, lastBeepTime |-> lastBeepTime,
     smoothedDeviation |-> smoothedDeviation, alertsFired |-> alertsFired,
     suppressedEntry |-> suppressedEntry]

PostureBecomes(p) ==
    /\ now' = p.now
    /\ previousPostureZone' = p.previousPostureZone
    /\ beepCooldownMs' = p.beepCooldownMs
    /\ lastBeepTime' = p.lastBeepTime
    /\ smoothedDeviation' = p.smoothedDeviation
    /\ alertsFired' = p.alertsFired
    /\ suppressedEntry' = p.suppressedEntry
    /\ UNCHANGED notPosture

\* raw deviations of a frame, in tenths, and frames that cannot be analysed
RawDeviations == {0, 20, 100}
PostureFrames == {[kind |-> "missing", raw |-> 0]}
                 \cup {[kind |-> "landmarks", raw |-> r] : r \in RawDeviations}
FrameGaps == {ShortGapMs, LongGapMs}
AlertFrequencies == {"always", "moderate", "relaxed", "other"}

\* variant: the cooldown is not looked at
triggerPostureAlertNoCooldown(p) ==
    [p EXCEPT !.lastBeepTime = p.now, !.suppressedEntry = FALSE,
              !.alertsFired = IF @ < MaxAlerts THEN @ + 1 ELSE @]

triggerPostureAlert(p) ==
    IF p.beepCooldownMs > 0 /\ (p.now - p.lastBeepTime) < p.beepCooldownMs
    THEN [p EXCEPT !.suppressedEntry = TRUE]
    ELSE [p EXCEPT !.lastBeepTime = p.now, !.suppressedEntry = FALSE,
                   !.alertsFired = IF @ < MaxAlerts THEN @ + 1 ELSE @]

\* smoothedDeviation * 0.75 + rawDeviation * 0.25, when they differ by more
\* than 0.03 (that is, by a tenth or more)
SmoothDeviation(old, raw) ==
    IF old # raw THEN (old * 75 + raw * 25) \div 100 ELSE old

PostureZone(deviationAmount) ==
    IF deviationAmount < WarningFromTenths THEN "good"
    ELSE IF deviationAmount < BadFromTenths THEN "warning"
    ELSE "bad"

\* variant: every bad frame asks for an alert
checkPostureImmediateEveryBadFrame(p, f) ==
    IF f.kind = "missing" THEN p
    ELSE LET p1 == [p EXCEPT !.smoothedDeviation = SmoothDeviation(@, f.raw)]
             zone == PostureZone(p1.smoothedDeviation)
             p2 == IF zone = "bad" THEN triggerPostureAlert(p1) ELSE p1
         IN [p2 EXCEPT !.previousPostureZone = zone,
                       !.suppressedEntry = @ /\ zone = "bad"]

checkPostureImmediate(p, f) ==
    IF f.kind = "missing" THEN p
    ELSE LET p1 == [p EXCEPT !.smoothedDeviation = SmoothDeviation(@, f.raw)]
             zone == PostureZone(p1.smoothedDeviation)
             p2 == IF zone = "bad" /\ p1.previousPostureZone # "bad"
                   THEN triggerPostureAlert(p1)
                   ELSE p1
         IN [p2 EXCEPT !.previousPostureZone = zone,
                       !.suppressedEntry = @ /\ zone = "bad"]

alertFrequencyOnChange(p, value) ==
    IF value = "always" THEN [p EXCEPT !.beepCooldownMs = 0]
    ELSE IF value = "moderate" THEN [p EXCEPT !.beepCooldownMs = DefaultCooldownMs]
    ELSE IF value = "relaxed" THEN [p EXCEPT !.beepCooldownMs = RelaxedCooldownMs]
    ELSE p

\* a video frame of the monitoring loop, some time after the previous one
PostureFrame ==
    \E gap \in FrameGaps : \E f \in PostureFrames :
        /\ now + gap <= PageLoadMs + MaxPostureSteps * ShortGapMs
        /\ PostureBecomes(checkPostureImmediate([PostureCur EXCEPT !.now = @ + gap], f))

\* the user picks an alert frequency
AlertFrequencyChange ==
    \E value \in AlertFrequencies :
        PostureBecomes(alertFrequencyOnChange(PostureCur, value))

PostureNext ==
    \/ PostureFrame
    \/ AlertFrequencyChange

PostureSpec == Init /\ [][PostureNext]_vars

(* ---- properties ---- *)
RaisedTiers == {t \in Tiers : formTimeTracking'[t] > formTimeTracking[t]}

\* C1: the four ledger counters are non-negative and sum to sessionElapsed,
\* and a step that counts a second raises sessionElapsed by 1 and exactly one
\* of the four counters by exactly 1.
C1_LedgerSumsToElapsed ==
    /\ [](/\ \A t \in Tiers : formTimeTracking[t] \in Nat
          /\ SumFormTime(formTimeTracking) = sessionElapsed)
    /\ [][sessionElapsed' # sessionElapsed =>
            /\ sessionElapsed' = sessionElapsed + 1
            /\ \E t \in Tiers :
                 /\ formTimeTracking'[t] = formTimeTracking[t] + 1
                 /\ \A u \in Tiers \ {t} : formTimeTracking'[u] = formTimeTracking[u]]_vars

\* seconds have been counted in two different tiers
C1_Witness ==
    /\ lastAction = "tick"
    /\ sessionElapsed >= 2
    /\ formTimeTracking["perfect"] >= 1
    /\ formTimeTracking["needsWork"] >= 1

\* C2: while the same item stays loaded the countdown either keeps its value
\* or drops by exactly 1, and it drops only in a timer tick taken while the
\* current tier is perfect or good.
C2_CountdownOnlyInGoodForm ==
    [][itemsLoaded' = itemsLoaded =>
         \/ poseTimeRemaining' = poseTimeRemaining
         \/ /\ poseTimeRemaining' = poseTimeRemaining - 1
            /\ lastAction' = "tick"
            /\ currentFormLevel \in GoodTiers]_vars

\* a tick outside good form has left a partly run countdown where it was
C2_Witness ==
    /\ lastAction = "tick"
    /\ state = "active"
    /\ poseTimerStarted
    /\ currentFormLevel \notin GoodTiers
    /\ 0 < poseTimeRemaining /\ poseTimeRemaining < poseTimeTotal
    /\ currentPoseFormTime["okay"] + currentPoseFormTime["needsWork"] >= 1

\* C3: a started session whose timer keeps ticking outside pause reaches
\* complete, whatever form the user shows.
C3_SessionNeverStalls ==
    ([]<>(lastAction = "tick" /\ state \notin {"paused", "complete"}))
        => <>(state = "complete")

\* C4: a segment in instructions whose voice has finished and whose user has
\* matched the threshold since the load is in active hold, timer started,
\* after the next timer tick or voice completion.
C4_FormAndVoiceStartHold ==
    [][(/\ state = "instructions" /\ loadedBy = "segment"
        /\ formMatchedSinceLoad
        /\ audioComplete'
        /\ (lastAction' = "tick" \/ ~audioComplete))
         => (state' = "active" /\ poseTimerStarted')]_vars

\* C5 as stated: after a tick past the timeout a segment is no longer in
\* instructions, whether or not its voice has finished.
C5_TimeoutAloneStartsHold ==
    (state = "instructions" /\ loadedBy = "segment")
        => establishingElapsed <= establishingTimeoutMs

\* C5: a segment whose timeout has been seen by a tick and whose voice has
\* finished is no longer in instructions; while its voice plays it is in
\* instructions (or the session was ended).
C5_TimeoutAndVoiceStartHold ==
    /\ (state = "instructions" /\ loadedBy = "segment"
          /\ establishingElapsed > establishingTimeoutMs) => ~audioComplete
    /\ segAudio = "playing" => state \in {"instructions", "complete"}

\* a segment has entered active hold by the timeout, never having matched
C5_Witness ==
    /\ state = "active" /\ loadedBy = "segment"
    /\ poseTimerStarted
    /\ ~formMatchedSinceLoad
    /\ audioComplete
    /\ establishingElapsed > establishingTimeoutMs

\* C6: the hold timer is not started while the voice guidance of the loaded
\* item is still playing.
C6_NoHoldWhileVoicePlays ==
    poseTimerStarted => (segAudio # "playing" /\ lpPc # "audio")

\* the hold timer of a segment runs, its voice having finished
C6_Witness ==
    /\ poseTimerStarted /\ state = "active"
    /\ loadedBy = "segment" /\ segAudio = "none" /\ audioComplete
    /\ lastAction = "tick" /\ sessionElapsed >= 1

\* C7: an item in active hold never waits for its timer beyond the tick
\* that makes PositioningLimit ticks of waiting.
C7_AutoStartByTenthTick ==
    (state = "active" /\ ~poseTimerStarted) => waitTicks < PositioningLimit

\* the timer was started by the limit: its first counted second was outside
\* good form
C7_Witness ==
    /\ lastAction = "tick"
    /\ state = "active" /\ loadedBy = "pose"
    /\ poseTimerStarted /\ ~isFormGood
    /\ poseTimeRemaining = poseTimeTotal
    /\ SumFormTime(currentPoseFormTime) = 1

\* C8: a ledger counter that is raised is the one of the tier of the last
\* frame scored since the item was loaded (needsWork when none was scored).
C8_IncrementMatchesScoredTier ==
    [][\A t \in RaisedTiers :
          t = (IF scoredTier = "none" THEN "needsWork" ELSE scoredTier)]_vars

\* C9: from complete no step changes the state, sessionElapsed or the ledger.
C9_CompleteIsTerminal ==
    [][state = "complete" =>
         /\ state' = "complete"
         /\ sessionElapsed' = sessionElapsed
         /\ formTimeTracking' = formTimeTracking]_vars

\* C10: a timer tick taken in paused, and any step that stays in paused,
\* leaves every counter as it was.
C10_PausedTicksChangeNothing ==
    [][(state = "paused" /\ (lastAction' = "tick" \/ state' = "paused")) =>
         UNCHANGED <<sessionElapsed, formTimeTracking, currentPoseFormTime,
                     poseTimeRemaining, goodFormTime, positioningTime, waitTicks>>]_vars

\* a tick has fired while a running hold was paused
C10_Witness ==
    /\ state = "paused" /\ lastAction = "tick"
    /\ poseTimerStarted /\ sessionElapsed >= 1 /\ poseTimeRemaining >= 1

\* C11: paused is entered only from active; while paused, and on the step
\* that resumes (the only step from paused other than ending the session),
\* the item, its remaining seconds and its timer-started flag stay as they
\* were, and resuming leads to active.
C11_PauseResumeKeepsHold ==
    [][/\ (state' = "paused" /\ state # "paused") => state = "active"
       /\ (state = "paused" /\ state' # "complete") =>
             /\ state' \in {"paused", "active"}
             /\ UNCHANGED <<currentPose, currentPoseIndex, currentSegmentIndex,
                            poseTimeTotal, poseTimeRemaining, poseTimerStarted>>]_vars

\* a partly run hold has been paused and resumed
C11_Witness ==
    /\ state = "active" /\ detectChains = 2
    /\ poseTimerStarted
    /\ 0 < poseTimeRemaining /\ poseTimeRemaining < poseTimeTotal

\* C12: within one item, the running hold time and the time the timer
\* callbacks have counted differ by less than one timer period, however
\* the hold was paused and resumed.
C12_PauseCarriesRemainder ==
    (0 - SubTicks < drift) /\ (drift < SubTicks)

\* C13: an alert fires on a frame only if the frame's zone is bad and the
\* zone of the previous analysed frame was not; and the first entry into
\* bad fires one, whatever the preset.
C13_AlertOnEntryEdgeOnly ==
    [][/\ lastBeepTime' # lastBeepTime =>
             (previousPostureZone' = "bad" /\ previousPostureZone # "bad")
       /\ (previousPostureZone' = "bad" /\ previousPostureZone # "bad"
             /\ alertsFired = 0) =>
             (lastBeepTime' = now' /\ alertsFired' = 1)]_vars

\* preset moderate: one dip into bad, lasting one short gap or more, has
\* been recovered from and has fired exactly one alert, on its entry
C13_Witness ==
    /\ beepCooldownMs = DefaultCooldownMs
    /\ alertsFired = 1
    /\ previousPostureZone # "bad"
    /\ now >= lastBeepTime + 2 * ShortGapMs

\* C14: an alert fires only when the configured cooldown has passed since
\* the previous alert; the presets configure 0, 30000 and 60000 ms.
C14_AlertsCooldownApart ==
    /\ [](beepCooldownMs \in {0, DefaultCooldownMs, RelaxedCooldownMs})
    /\ [][lastBeepTime' # lastBeepTime =>
            (lastBeepTime' = now' /\ now' - lastBeepTime >= beepCooldownMs')]_vars

\* a second alert has just fired under a preset with a cooldown
C14_Witness ==
    /\ alertsFired = 2
    /\ lastBeepTime = now
    /\ beepCooldownMs > 0

\* C15 as stated: the countdown is entered only with calibration progress
\* at 30 good frames or more.
C15_CountdownOnlyWhenCalibrated ==
    [][(state = "calibrating" /\ state' = "countdown") =>
         calibrationFrames >= CalibrationGoal]_vars

\* C15: a click on the start button enters the countdown only with
\* calibration progress at 30 good frames or more; the remote start command
\* enters it from calibrating at any progress.
C15_ButtonStartsOnlyWhenCalibrated ==
    /\ [](startedBy = "button" => calibrationFrames >= CalibrationGoal)
    /\ [](~startBtnDisabled => calibrationFrames >= CalibrationGoal)
    /\ [][(state = "calibrating" /\ state' = "countdown") =>
            (startedBy' = "button" \/ startedBy' = "remote")]_vars

\* the button has started the countdown of a calibrated session
C15_Witness ==
    /\ state = "countdown"
    /\ startedBy = "button"
    /\ calibrationFrames >= CalibrationGoal

\* C16: a good frame adds 1 to the calibration progress and a frame that is
\* not good takes 2 from it, not below 0, so that no frame takes more than 2.
C16_DropTakesAtMostTwo ==
    /\ [](calibrationFrames >= 0)
    /\ [][\/ calibrationFrames' = calibrationFrames
           \/ calibrationFrames' = calibrationFrames + 1
           \/ /\ calibrationFrames' < calibrationFrames
              /\ calibrationFrames' >= calibrationFrames - CalibrationPenalty]_vars

\* C17: when the countdown of a hold reaches zero and a next item follows,
\* the tick leaves the session in transitioning (legacy name: transition),
\* not yet in the instructions of the next item.
C17_TransitioningBetweenItems ==
    [][(state = "active" /\ lastAction' = "tick" /\ itemsLoaded' # itemsLoaded) =>
         state' \in {"transitioning", "transition"}]_vars

\* C18: the interpolator created at an item change does not complete before
\* durationMs have passed since it was created.
C18_InterpolationTakesItsDuration ==
    isComplete => completedAt - createdAt >= durationMs

\* C19: the per-item form-time counter is zero whenever a next item has
\* just been loaded, whether the hold before it completed or was skipped.
C19_ItemCounterResetAtBoundary ==
    [][itemsLoaded' # itemsLoaded => currentPoseFormTime' = ZeroFormTime]_vars

\* C20: whenever the session enters complete, by the queue running out, the
\* end button or the remote end command, the stored session data holds the
\* ledger as it is at that moment.
C20_EveryEndingSavesLedger ==
    [][(state # "complete" /\ state' = "complete") =>
         (sessionSaved' /\ savedFormTracking' = formTimeTracking')]_vars

\* C21: at most one detection-loop callback chain is scheduled at any time,
\* also after pause and resume.
C21_SingleDetectionChain ==
    detectChains <= 1

\* C22: in every reachable state, the pause command outside active, the
\* resume command outside paused, the skip command outside active, the start
\* command outside calibrating, and a command outside the command set leave
\* every field of the session as it is.
C22_CommandsOnlyInTheirState ==
    \A f \in FrameInputs :
        /\ state # "active" => handleRemoteCommand(Cur, "pause", f) = Cur
        /\ state # "paused" => handleRemoteCommand(Cur, "resume", f) = Cur
        /\ state # "active" => handleRemoteCommand(Cur, "skip", f) = Cur
        /\ state # "calibrating" => handleRemoteCommand(Cur, "start", f) = Cur
        /\ handleRemoteCommand(Cur, "volume_up", f) = Cur

\* a paused hold with an item still to come: pause, skip and start are out
\* of their state here, and resume is in its state
C22_Witness ==
    /\ state = "paused"
    /\ poseTimerStarted
    /\ poseTimeRemaining > 0
    /\ currentPoseIndex + 1 < NumItems
    /\ lastAction = "event"
    /\ handleRemoteCommand(Cur, "resume", [kind |-> "none", score |-> 0]).state = "active"

\* C23 as stated: any two consecutive state_update messages are sent at
\* least 100 ms apart.
C23_UpdatesThrottled ==
    prevSentAt # NoSend => lastSentAt - prevSentAt >= BroadcastThrottleMs

\* C23: any two consecutive state snapshots pushed by broadcastState are
\* sent at least 100 ms apart; the countdown values pushed by
\* broadcastCountdown are state_update messages outside this throttle.
C23_SnapshotsThrottled ==
    prevSnapshotAt # NoSend => lastSnapshotAt - prevSnapshotAt >= BroadcastThrottleMs

\* two snapshots have been sent exactly 100 ms apart, after a call in between
\* that the throttle dropped or a countdown value
C23_Witness ==
    /\ prevSnapshotAt # NoSend
    /\ lastSnapshotAt - prevSnapshotAt = BroadcastThrottleMs
    /\ wsOpen
    /\ bcCount > 0

\* C24: the first smoothed output after a new item was loaded equals the raw
\* input frame.
C24_IdentitySeeding ==
    firstAfterReset => smoothedX = lastRawX

\* C25: a NaN coordinate of a raw frame does not enter the smoothed state:
\* every smoothed coordinate is a valid number.
C25_NoNaNInSmoothedState ==
    smoothedSet => smoothedX.kind = "num"

\* C26: with an empty item list or a reference without defined angles the
\* session does not start: the error is reported and active hold is never
\* entered.
C26_ConfigErrorStopsSession ==
    (sessionQueueLength = 0 \/ ~referenceAngles) =>
        /\ state # "active"
        /\ state # "loading" => errorReported

\* C27: the no-person overlay is up only while the monitor is not idle, the
\* last frame had no detection and detections have been missing for more
\* than 2000 ms; a frame with a detection leaves it down.
C27_NoPersonAfterTimeout ==
    /\ noPersonOverlayVisible =>
          /\ currentState # "idle"
          /\ lastLoopFrame = "noPerson"
          /\ appNow - missingSince > NO_PERSON_TIMEOUT_MS
    /\ lastLoopFrame = "person" => ~noPersonOverlayVisible

\* the overlay was raised and a frame with a detection has cleared it
C27_Witness ==
    /\ overlayRaised
    /\ ~noPersonOverlayVisible
    /\ lastLoopFrame = "person"
    /\ currentState = "monitoring"

\* C28: while the raw deviation alternates frame by frame between two values
\* on either side of a zone boundary, the zone does not come back to a zone
\* it has left: it flips at most once over a boundary until the raw
\* deviation stays.
C28_NoFlipBackWhileOscillating ==
    fineZone \notin leftZones

C30_GradeIsWeightedAverage ==
    LET p == gradeTracking.perfect
        g == gradeTracking.good
        o == gradeTracking.okay
        n == gradeTracking.needsWork
        seconds == p + g + o + n
        sum == p * 100 + g * 85 + o * 70 + n * 40
    IN (gradeLetter # "none" /\ seconds > 0) =>
           /\ gradeWeighted = sum
           /\ gradeTotal = seconds
           /\ gradeLetter = "A+" <=> sum >= 95 * seconds
           /\ gradeLetter = "A" <=> (sum >= 90 * seconds /\ sum < 95 * seconds)
           /\ gradeLetter = "B+" <=> (sum >= 85 * seconds /\ sum < 90 * seconds)
           /\ gradeLetter = "B" <=> (sum >= 80 * seconds /\ sum < 85 * seconds)
           /\ gradeLetter = "C+" <=> (sum >= 75 * seconds /\ sum < 80 * seconds)
           /\ gradeLetter = "C" <=> (sum >= 70 * seconds /\ sum < 75 * seconds)
           /\ gradeLetter = "D" <=> (sum >= 60 * seconds /\ sum < 70 * seconds)
           /\ gradeLetter = "F" <=> sum < 60 * seconds
           /\ (p = 30 /\ seconds = 30) =>
                  (gradeWeighted = 100 * gradeTotal /\ gradeLetter = "A+")

\* thirty seconds, all perfect, graded
C30_Witness ==
    /\ gradeTracking = [perfect |-> 30, good |-> 0, okay |-> 0, needsWork |-> 0]
    /\ gradeLetter = "A+"
    /\ gradeWeighted = 3000
    /\ gradeTotal = 30

\* C33: a tick that counts a second in the ledger takes a second off the hold
\* countdown exactly when the counter it raises is perfect or good (the tick
\* that takes the last second off loads the next item or completes).
C33_CountdownFollowsCreditedTier ==
    [][SumFormTime(formTimeTracking') = SumFormTime(formTimeTracking) + 1 =>
          ((\E t \in GoodTiers : formTimeTracking'[t] > formTimeTracking[t])
             <=> \/ poseTimeRemaining' = poseTimeRemaining - 1
                 \/ itemsLoaded' # itemsLoaded
                 \/ (state' = "complete" /\ state # "complete"))]_vars

\* C40: for the current item the seconds held in good form and the seconds
\* left add up to its hold time, and the seconds left stay between 0 and the
\* hold time.
C40_HoldTimeConserved ==
    /\ goodFormTime + poseTimeRemaining = poseTimeTotal
    /\ 0 <= poseTimeRemaining
    /\ poseTimeRemaining <= poseTimeTotal

\* half of a two-second hold is done
C40_Witness ==
    /\ state = "active"
    /\ poseTimerStarted
    /\ poseTimeTotal = MaxHold
    /\ goodFormTime = 1
    /\ poseTimeRemaining = MaxHold - 1
    /\ lastAction = "tick"

\* C34: a tick that starts the hold timer of an item outside good form is at
\* least the tenth tick the item has waited in active state since it was loaded.
C34_AllowanceIsPerItem ==
    [][(lastAction' = "tick" /\ state = "active" /\ ~poseTimerStarted
          /\ poseTimerStarted' /\ ~isFormGood /\ itemsLoaded' = itemsLoaded)
         => waitTicks + 1 >= PositioningLimit]_vars

\* C35: in manifest mode the loaded item is the segment numbered
\* currentSegmentIndex, and every load after the first takes a later
\* segment than the one before, so that no segment is loaded twice.
C35_SegmentsInOrderOnce ==
    [][useManifest =>
          /\ currentPose' # 0 => currentPoseIndex' = currentSegmentIndex'
          /\ (itemsLoaded' > itemsLoaded /\ itemsLoaded > 0)
                => currentPoseIndex' > currentPoseIndex]_vars

\* C36: once the session is complete with the remote socket open, a
\* snapshot with status complete is eventually sent to the remote, unless
\* the socket closes first.
C36_RemoteSeesComplete ==
    (bcStatus = "complete" /\ wsOpen) ~> (lastSnapshotStatus = "complete" \/ ~wsOpen)

\* C31: the matched variation of a pose has the largest count of frames among
\* its variations, and among variations with that count it is the one that
\* reached it first.
C31_LabelIsFirstAtMaximum ==
    currentMatchedVariation # 0 =>
        /\ \A v \in 1..NumVariations :
              variationMatchCounts[v] <= variationMatchCounts[currentMatchedVariation]
        /\ currentMatchedVariation = firstAtMax

\* C32: whatever the number of adaptations, the coordinate of the ideal pose
\* stays within a fixed distance of its calibrated value, here four tenths
\* of the frame.
C32_DriftBounded ==
    Distance(calibratedX, originalX) <= 400

\* C37: a bad period that was entered while the cooldown was running
\* and lasted beyond the end of the cooldown has had its alert by the time it
\* ends.
C37_LongBadPeriodAlerts ==
    [][(previousPostureZone = "bad" /\ previousPostureZone' # "bad"
          /\ now - lastBeepTime >= beepCooldownMs) => ~suppressedEntry]_vars

\* C38: when the socket opens again after an earlier socket had been open,
\* and the page is monitoring, start_session is sent on the new socket
C38_ReconnectRestartsSession ==
    [][(readyState = "connecting" /\ readyState' = "open" /\ hadConnection
          /\ pageState = "monitoring") => startSessionSent']_vars

\* C39: all the calls of getDeviceToken that have returned have returned the
\* same token, and it is the stored one
C39_OneTokenPerDevice ==
    \A c, d \in 1..NumCalls :
        (tokenPc[c] = "done" /\ tokenPc[d] = "done")
            => (tokenReturned[c] = tokenReturned[d] /\ tokenReturned[c] = storedToken)

====
